---- MODULE Spec2Model ----
(***************************************************************************)
(* Delivery planning of the order-fulfilment backend:                      *)
(*   service/product.go     RobotService.GenerateDeliveryPlan,             *)
(*                          RobotService.UpdateOrderStatus,                *)
(*                          selectOrdersForDelivery                        *)
(*   repository/order.go    OrderRepository.GetShippingOrders,             *)
(*                          OrderRepository.UpdateStatusesChunked,         *)
(*                          OrderRepository.UpdateStatuses                 *)
(* and the session cache of the authentication middleware:                 *)
(*   middleware             SessionCache.Get, Set, Delete                  *)
(* The transaction envelope (Store.ExecTx) and the deadline scope          *)
(* (utils.WithTimeout) are called by this code but defined elsewhere; they *)
(* are modelled from sections 4.3, 5, 6 and 7 of the specification.        *)
(***************************************************************************)
EXTENDS Integers, Sequences, FiniteSets, TLC

(***************************************************************************)
(* Program constants.                                                      *)
(***************************************************************************)
maxCells == 5000000

chunkSize == 1000

checkEvery == 4096

(***************************************************************************)
(* Bounds of the model.                                                    *)
(***************************************************************************)
MaxOrders == 3

MaxWeight == 2

MaxCap == 3

GreedyUnit == 2000000

(***************************************************************************)
(* model.Order as GetShippingOrders fills it, and model.DeliveryPlan.      *)
(***************************************************************************)
Order(i, w, v) == [id |-> i, weight |-> w, value |-> v]

DeliveryPlan(robotID, totalWeight, totalValue, os) ==
    [robotID |-> robotID, totalWeight |-> totalWeight,
     totalValue |-> totalValue, orders |-> os]

(***************************************************************************)
(* The sums of lines 176-179 and 245-250, added up by halves so that a     *)
(* plan of a thousand orders needs no deep recursion.                      *)
(***************************************************************************)
RECURSIVE SumWeightFrom(_, _, _)
SumWeightFrom(s, lo, hi) ==
    IF lo > hi THEN 0
    ELSE IF lo = hi THEN s[lo].weight
    ELSE LET mid == (lo + hi) \div 2
         IN  SumWeightFrom(s, lo, mid) + SumWeightFrom(s, mid + 1, hi)

SumWeight(s) == SumWeightFrom(s, 1, Len(s))

RECURSIVE SumValueFrom(_, _, _)
SumValueFrom(s, lo, hi) ==
    IF lo > hi THEN 0
    ELSE IF lo = hi THEN s[lo].value
    ELSE LET mid == (lo + hi) \div 2
         IN  SumValueFrom(s, lo, mid) + SumValueFrom(s, mid + 1, hi)

SumValue(s) == SumValueFrom(s, 1, Len(s))

Ids(s) == {s[k].id : k \in 1..Len(s)}

Reverse(s) == [k \in 1..Len(s) |-> s[Len(s) + 1 - k]]

(***************************************************************************)
(* selectOrdersForDelivery: the split of the input (lines 128-138).        *)
(***************************************************************************)
IsZeroWeight(o) == o.weight <= 0

IsPositiveWeight(o) == ~IsZeroWeight(o)

zeroWeightItemsDropped(os) == <<>>

zeroWeightItems(os) == SelectSeq(os, IsZeroWeight)

filtered(os) == SelectSeq(os, IsPositiveWeight)

(***************************************************************************)
(* The branch test of line 142, on the filtered orders.                    *)
(***************************************************************************)
UseGreedyAtBudget(os, robotCapacity) == Len(filtered(os)) * robotCapacity >= maxCells

UseGreedy(os, robotCapacity) == Len(filtered(os)) * robotCapacity > maxCells

(***************************************************************************)
(* Greedy branch.  The comparison of lines 156-158 is on float64 ratios    *)
(* value/weight with weight > 0; for the integers of the model the         *)
(* quotients are exact enough that it equals the cross-multiplied integer  *)
(* comparison.  sort.Slice is not stable, so the slice after the sort is   *)
(* any permutation with no pair out of order.                              *)
(***************************************************************************)
RatioGreater(a, b) == a.value * b.weight > b.value * a.weight

Perms(n) == {f \in [1..n -> 1..n] : \A a, b \in 1..n : a # b => f[a] # f[b]}

SortOutcomes(os) ==
    LET fs == filtered(os)
        n == Len(fs)
    IN  {s \in {[k \in 1..n |-> fs[f[k]]] : f \in Perms(n)} :
            \A a, b \in 1..n : a < b => ~RatioGreater(s[b], s[a])}

GreedyFitsAlways(o, capLeft) == TRUE

GreedyFits(o, capLeft) == o.weight <= capLeft

RECURSIVE GreedyLoop(_, _, _, _, _)
GreedyLoop(items, k, bestSet, capLeft, totalValue) ==
    IF k > Len(items)
    THEN [bestSet |-> bestSet, totalValue |-> totalValue]
    ELSE IF GreedyFits(items[k], capLeft)
         THEN GreedyLoop(items, k + 1, Append(bestSet, items[k]),
                         capLeft - items[k].weight,
                         totalValue + items[k].value)
         ELSE GreedyLoop(items, k + 1, bestSet, capLeft, totalValue)

GreedyPlan(os, robotID, robotCapacity, items) ==
    LET g == GreedyLoop(items, 1, <<>>, robotCapacity, 0)
        bestSet == zeroWeightItems(os) \o g.bestSet
    IN  DeliveryPlan(robotID, SumWeight(bestSet), g.totalValue, bestSet)

(***************************************************************************)
(* Exact branch: the table dp[0..cap] and the rows keep[i][0..cap],        *)
(* updated in place for c from cap down to w (lines 194-214).              *)
(***************************************************************************)
Improves(dp, c, w, v) == dp[c - w] + v > dp[c]

RECURSIVE InnerLoop(_, _, _, _, _)
InnerLoop(dp, keepRow, w, v, c) ==
    IF c < w
    THEN [dp |-> dp, keepRow |-> keepRow]
    ELSE IF Improves(dp, c, w, v)
         THEN InnerLoop([dp EXCEPT ![c] = dp[c - w] + v],
                        [keepRow EXCEPT ![c] = TRUE], w, v, c - 1)
         ELSE InnerLoop(dp, keepRow, w, v, c - 1)

SkippedIfFull(o, cap) == o.weight >= cap

Skipped(o, cap) == o.weight > cap

RECURSIVE ItemLoop(_, _, _, _, _)
ItemLoop(fs, cap, i, dp, keep) ==
    IF i > Len(fs)
    THEN [dp |-> dp, keep |-> keep]
    ELSE LET row0 == [c \in 0..cap |-> FALSE]
         IN  IF Skipped(fs[i], cap)
             THEN ItemLoop(fs, cap, i + 1, dp, Append(keep, row0))
             ELSE LET r == InnerLoop(dp, row0, fs[i].weight, fs[i].value, cap)
                  IN  ItemLoop(fs, cap, i + 1, r.dp, Append(keep, r.keepRow))

(***************************************************************************)
(* The scan for the best capacity (lines 217-224).                         *)
(***************************************************************************)
RECURSIVE FindBestLast(_, _, _, _, _)
FindBestLast(dp, cap, c, bestVal, bestC) ==
    IF c > cap
    THEN [bestVal |-> bestVal, bestC |-> bestC]
    ELSE IF dp[c] >= bestVal
         THEN FindBestLast(dp, cap, c + 1, dp[c], c)
         ELSE FindBestLast(dp, cap, c + 1, bestVal, bestC)

RECURSIVE FindBest(_, _, _, _, _)
FindBest(dp, cap, c, bestVal, bestC) ==
    IF c > cap
    THEN [bestVal |-> bestVal, bestC |-> bestC]
    ELSE IF dp[c] > bestVal
         THEN FindBest(dp, cap, c + 1, dp[c], c)
         ELSE FindBest(dp, cap, c + 1, bestVal, bestC)

(***************************************************************************)
(* The reconstruction, from the last item to the first (lines 227-237).    *)
(***************************************************************************)
RECURSIVE ReconstructRepeat(_, _, _, _, _)
ReconstructRepeat(fs, keep, i, c, bestSet) ==
    IF i < 1 \/ c <= 0
    THEN bestSet
    ELSE IF keep[i][c]
         THEN ReconstructRepeat(fs, keep, i, c - fs[i].weight,
                                Append(bestSet, fs[i]))
         ELSE ReconstructRepeat(fs, keep, i - 1, c, bestSet)

RECURSIVE Reconstruct(_, _, _, _, _)
Reconstruct(fs, keep, i, c, bestSet) ==
    IF i < 1 \/ c <= 0
    THEN bestSet
    ELSE IF keep[i][c]
         THEN Reconstruct(fs, keep, i - 1, c - fs[i].weight,
                          Append(bestSet, fs[i]))
         ELSE Reconstruct(fs, keep, i - 1, c, bestSet)

ExactPlan(os, robotID, robotCapacity) ==
    LET fs == filtered(os)
        cap == robotCapacity
        t == ItemLoop(fs, cap, 1, [c \in 0..cap |-> 0], <<>>)
        b == FindBest(t.dp, cap, 0, 0, 0)
        picked == Reconstruct(fs, t.keep, Len(fs), b.bestC, <<>>)
        bestSet == zeroWeightItems(os) \o picked
    IN  DeliveryPlan(robotID, SumWeight(bestSet), SumValue(bestSet),
                     Reverse(bestSet))

(***************************************************************************)
(* selectOrdersForDelivery on a run that no checkpoint interrupts.  items  *)
(* is the slice as sort.Slice left it (read in the greedy branch only).    *)
(***************************************************************************)
EarlyReturnNoOrders(os, robotCapacity) == Len(os) = 0

EarlyReturn(os, robotCapacity) == Len(os) = 0 \/ robotCapacity <= 0

selectOrdersForDelivery(os, robotID, robotCapacity, items) ==
    IF EarlyReturn(os, robotCapacity)
    THEN DeliveryPlan(robotID, 0, 0, <<>>)
    ELSE IF UseGreedy(os, robotCapacity)
         THEN GreedyPlan(os, robotID, robotCapacity, items)
         ELSE ExactPlan(os, robotID, robotCapacity)

(***************************************************************************)
(* The number of times a run to completion reads ctx.Done(): once per      *)
(* item in the greedy pass (lines 162-167), at every checkEvery-th step of *)
(* the inner loop in the exact pass (lines 200-208).                       *)
(***************************************************************************)
RECURSIVE InnerSteps(_, _)
InnerSteps(fs, cap) ==
    IF fs = <<>> THEN 0
    ELSE (IF Head(fs).weight > cap THEN 0 ELSE cap - Head(fs).weight + 1)
         + InnerSteps(Tail(fs), cap)

Checkpoints(os, robotCapacity) ==
    IF EarlyReturn(os, robotCapacity) THEN 0
    ELSE IF UseGreedy(os, robotCapacity) THEN Len(filtered(os))
         ELSE InnerSteps(filtered(os), robotCapacity) \div checkEvery

(***************************************************************************)
(* State.  The database: catalog is the join of orders and products        *)
(* (order_id, weight, value), status the committed shipped_status of each  *)
(* order.  Each planning call p has the locals of GenerateDeliveryPlan and *)
(* of UpdateStatusesChunked, its context, and the uncommitted writes of    *)
(* its transaction (the rows it has updated and holds locked).             *)
(* sortMemo is what sort.Slice has left for each slice it was given so far *)
(* and run the locals of one selectOrdersForDelivery run followed loop     *)
(* turn by loop turn.  The session cache of the middleware is cache (the   *)
(* map), now (the clock time.Now reads) and gets (the Get calls in         *)
(* flight).                                                                *)
(***************************************************************************)
VARIABLES catalog, status, pc, ctxDone, capacity, orders, plan, orderIDs,
          loopI, stmts, newStatus, txWrites, err, result, statusCalls,
          sortMemo, run, cache, now, gets

planVars == <<catalog, status, pc, ctxDone, capacity, orders, plan, orderIDs,
              loopI, stmts, newStatus, txWrites, err, result, statusCalls>>

cacheVars == <<cache, now, gets>>

vars == <<planVars, sortMemo, run, cacheVars>>

Procs == {1, 2}

Status == {"shipping", "delivering", "completed"}

NoPlan == [robotID |-> 0, totalWeight |-> 0, totalValue |-> 0, orders |-> <<>>]

(* What the caller holds: no plan (the nil pointer) is <<>>, a plan pl is  *)
(* <<pl>>.                                                                 *)
Pending == [plan |-> <<>>, err |-> "pending"]

MaxStatusCalls == 1

MaxTouched == 1

BigExtra == 1

(***************************************************************************)
(* Databases the calls run on: the three-order example of the              *)
(* specification planned by two robots, two heavy orders planned by two    *)
(* robots with a capacity above the cell budget, and more zero-weight      *)
(* orders than one update statement carries, planned by one robot.         *)
(***************************************************************************)
ExampleCatalog == <<Order(1, 2, 10), Order(2, 3, 15), Order(3, 0, 5)>>

HeavyCatalog == <<Order(1, 3000000, 10), Order(2, 2500000, 9)>>

BigCatalog == [k \in 1..(chunkSize + BigExtra) |-> Order(k, 0, 1)]

Scenarios ==
    { [catalog |-> ExampleCatalog, caps |-> {0, 4}, robots |-> {1, 2}],
      [catalog |-> HeavyCatalog, caps |-> {maxCells + 1}, robots |-> {1, 2}],
      [catalog |-> BigCatalog, caps |-> {1}, robots |-> {1}] }

Caps(cat) == UNION {sc.caps : sc \in {t \in Scenarios : t.catalog = cat}}

Robots(cat) == UNION {sc.robots : sc \in {t \in Scenarios : t.catalog = cat}}

(***************************************************************************)
(* The locals of a run of selectOrdersForDelivery that has not begun.  The *)
(* table dp and the rows of keep hold only the cells written so far: make  *)
(* leaves every other cell 0 or false.                                     *)
(***************************************************************************)
RunIdle ==
    [branch |-> "none", i |-> 0, c |-> -1, steps |-> 0, checks |-> 0,
     since |-> 0, found |-> FALSE, dp |-> <<>>, keep |-> {}, items |-> <<>>,
     bestSet |-> <<>>, capLeft |-> 0, totalValue |-> 0]

(***************************************************************************)
(* The session cache as constructed (line 29-31): an empty map.  Each      *)
(* caller of Get is about to call it.                                      *)
(***************************************************************************)
Getters == {1, 2}

GetIdle ==
    [pc |-> "idle", sessionID |-> "", entry |-> <<>>, checkedAt |-> 0,
     userID |-> 0, ok |-> FALSE]

InitCache ==
    /\ cache = <<>>
    /\ now = 0
    /\ gets = [g \in Getters |-> GetIdle]

InitRest ==
    /\ sortMemo = <<>>
    /\ run = RunIdle
    /\ InitCache

InitCalls ==
    /\ pc = [p \in Procs |-> "idle"]
    /\ ctxDone = [p \in Procs |-> FALSE]
    /\ capacity = [p \in Procs |-> 0]
    /\ orders = [p \in Procs |-> <<>>]
    /\ plan = [p \in Procs |-> NoPlan]
    /\ orderIDs = [p \in Procs |-> <<>>]
    /\ loopI = [p \in Procs |-> 0]
    /\ stmts = [p \in Procs |-> <<>>]
    /\ newStatus = [p \in Procs |-> "delivering"]
    /\ txWrites = [p \in Procs |-> {}]
    /\ err = [p \in Procs |-> "nil"]
    /\ result = [p \in Procs |-> Pending]
    /\ statusCalls = 0
    /\ InitRest

Init ==
    /\ \E sc \in Scenarios : catalog = sc.catalog
    /\ status = [o \in Ids(catalog) |-> "shipping"]
    /\ InitCalls

(***************************************************************************)
(* GenerateDeliveryPlan, lines 80-84: the deadline scope is entered and    *)
(* the transaction begun.                                                  *)
(***************************************************************************)
GenerateDeliveryPlan(p, robotCapacity) ==
    /\ pc[p] = "idle"
    /\ pc' = [pc EXCEPT ![p] = "read"]
    /\ capacity' = [capacity EXCEPT ![p] = robotCapacity]
    /\ UNCHANGED <<cacheVars, run, sortMemo, catalog, status, ctxDone, orders, plan, orderIDs, loopI,
                   stmts, newStatus, txWrites, err, result, statusCalls>>

(***************************************************************************)
(* The deadline of the scope elapses, or the caller cancels, while the     *)
(* call is in flight.                                                      *)
(***************************************************************************)
InFlight(p) == pc[p] \in {"read", "select", "update", "commit"}

Cancel(p) ==
    /\ InFlight(p)
    /\ ~ctxDone[p]
    /\ ctxDone' = [ctxDone EXCEPT ![p] = TRUE]
    /\ UNCHANGED <<cacheVars, run, sortMemo, catalog, status, pc, capacity, orders, plan, orderIDs,
                   loopI, stmts, newStatus, txWrites, err, result, statusCalls>>

(***************************************************************************)
(* Lines 107-110: what GenerateDeliveryPlan hands to its caller.           *)
(***************************************************************************)
ReturnPlanAlways(pl, e) == [plan |-> <<pl>>, err |-> e]

Return(pl, e) == IF e # "nil" THEN [plan |-> <<>>, err |-> e]
                 ELSE [plan |-> <<pl>>, err |-> "nil"]

(***************************************************************************)
(* The error of a statement that fails, SelectContext or ExecContext on    *)
(* the context of the call: ctx.Err() on a cancelled context, else an      *)
(* error of the store.                                                     *)
(***************************************************************************)
FailureOfStore(p) == "storage"

FailureOf(p) == IF ctxDone[p] THEN "canceled" ELSE "storage"

(***************************************************************************)
(* The error of a commit that fails: the transaction is bound to the       *)
(* context of the call, so a commit on a cancelled context fails with      *)
(* ctx.Err().                                                              *)
(***************************************************************************)
CommitFailureOf(p) == IF ctxDone[p] THEN "canceled" ELSE "storage"

(***************************************************************************)
(* Store.ExecTx when the work returns the error e, or the commit fails     *)
(* with it: the transaction is rolled back, its locks are released and     *)
(* the error goes up through the deadline scope to the caller.             *)
(***************************************************************************)
ExecTxRollback(p, pl, e) ==
    /\ txWrites' = [txWrites EXCEPT ![p] = {}]
    /\ err' = [err EXCEPT ![p] = e]
    /\ result' = [result EXCEPT ![p] = Return(pl, e)]
    /\ pc' = [pc EXCEPT ![p] = "done"]

(***************************************************************************)
(* GetShippingOrders: the committed rows with shipped_status 'shipping',   *)
(* in order_id order, read without locking them.                           *)
(***************************************************************************)
IsShipping(o) == status[o.id] = "shipping"

ShippingOrders == SelectSeq(catalog, IsShipping)

GetShippingOrders(p) ==
    /\ pc[p] = "read"
    /\ ~ctxDone[p]
    /\ orders' = [orders EXCEPT ![p] = ShippingOrders]
    /\ pc' = [pc EXCEPT ![p] = "select"]
    /\ UNCHANGED <<cacheVars, run, sortMemo, catalog, status, ctxDone, capacity, plan, orderIDs, loopI,
                   stmts, newStatus, txWrites, err, result, statusCalls>>

GetShippingOrdersFails(p) ==
    /\ pc[p] = "read"
    /\ ExecTxRollback(p, plan[p], FailureOf(p))
    /\ UNCHANGED <<cacheVars, run, sortMemo, catalog, status, ctxDone, capacity, orders, plan, orderIDs,
                   loopI, stmts, newStatus, statusCalls>>

(***************************************************************************)
(* Lines 89-97: the allocator runs to completion (no checkpoint found the  *)
(* context cancelled) and the identities of the plan are collected.        *)
(* sort.Slice promises no order among items of equal ratio, but it is a    *)
(* procedure without a source of randomness: given the same slice again it *)
(* leaves it as it did before.  The first sort of a slice is any outcome   *)
(* with no pair out of order, a later sort of the same slice the same one. *)
(***************************************************************************)
HasOrdersAlways(pl) == TRUE

HasOrders(pl) == Len(pl.orders) > 0

PlanIDsOfRead(p, pl) == [k \in 1..Len(orders[p]) |-> orders[p][k].id]

PlanIDs(p, pl) == [k \in 1..Len(pl.orders) |-> pl.orders[k].id]

Sorts(p) == ~EarlyReturn(orders[p], capacity[p]) /\ UseGreedy(orders[p], capacity[p])

SortSliceAfresh(fs, os) == SortOutcomes(os)

SortSlice(fs, os) == IF fs \in DOMAIN sortMemo THEN {sortMemo[fs]} ELSE SortOutcomes(os)

SortChoices(p) ==
    IF Sorts(p) THEN SortSlice(filtered(orders[p]), orders[p]) ELSE {<<>>}

Sorted(p, items) ==
    sortMemo' = IF Sorts(p) THEN (filtered(orders[p]) :> items) @@ sortMemo
                ELSE sortMemo

Planned(p, pl) ==
    /\ plan' = [plan EXCEPT ![p] = pl]
    /\ IF HasOrders(pl)
       THEN /\ orderIDs' = [orderIDs EXCEPT ![p] = PlanIDs(p, pl)]
            /\ pc' = [pc EXCEPT ![p] = "update"]
       ELSE /\ orderIDs' = orderIDs
            /\ pc' = [pc EXCEPT ![p] = "commit"]

SelectOk(p) ==
    /\ pc[p] = "select"
    /\ ctxDone[p] => Checkpoints(orders[p], capacity[p]) = 0
    /\ \E items \in SortChoices(p) :
         LET pl == selectOrdersForDelivery(orders[p], p, capacity[p], items)
         IN  /\ Sorted(p, items)
             /\ Planned(p, pl)
    /\ UNCHANGED <<cacheVars, run, catalog, status, ctxDone, capacity, orders,
                   loopI, stmts, newStatus, txWrites, err, result, statusCalls>>

(***************************************************************************)
(* Lines 162-167 and 202-208: a checkpoint finds the context cancelled     *)
(* (it was cancelled before the run, or is cancelled during it); the       *)
(* allocator returns the zero plan and ctx.Err(), and line 89 stores both. *)
(***************************************************************************)
SelectCancelled(p) ==
    /\ pc[p] = "select"
    /\ Checkpoints(orders[p], capacity[p]) >= 1
    /\ ctxDone' = [ctxDone EXCEPT ![p] = TRUE]
    /\ plan' = [plan EXCEPT ![p] = NoPlan]
    /\ ExecTxRollback(p, NoPlan, "canceled")
    /\ UNCHANGED <<cacheVars, run, sortMemo, catalog, status, capacity, orders, orderIDs, loopI, stmts,
                   newStatus, statusCalls>>

(***************************************************************************)
(* UpdateStatusesChunked: one turn of the loop of lines 102-124.  A        *)
(* statement is recorded in stmts by the positions <<first, last>> of the  *)
(* slice of orderIDs it carries.  The statement waits while another        *)
(* transaction holds one of its rows.                                      *)
(***************************************************************************)
Min(a, b) == IF a < b THEN a ELSE b

ChunkEndShort(n, from) == Min(from + chunkSize, n) - 1

ChunkEnd(n, from) == Min(from + chunkSize, n)

Chunk(ids, from) == SubSeq(ids, from + 1, ChunkEnd(Len(ids), from))

Range(s) == {s[k] : k \in 1..Len(s)}

LockedByOther(p, ids) == \E q \in Procs \ {p} : txWrites[q] \cap ids # {}

ExecAutocommit(p, chunk) ==
    /\ status' = [o \in DOMAIN status |->
                     IF o \in Range(chunk) THEN newStatus[p] ELSE status[o]]
    /\ UNCHANGED txWrites

ExecInTx(p, chunk) ==
    /\ txWrites' = [txWrites EXCEPT ![p] = @ \cup Range(chunk)]
    /\ UNCHANGED status

Issued(p) == Append(stmts[p], <<loopI[p] + 1, ChunkEnd(Len(orderIDs[p]), loopI[p])>>)

LoopAdvance(p) ==
    /\ loopI' = [loopI EXCEPT ![p] = @ + chunkSize]
    /\ pc' = [pc EXCEPT ![p] =
                 IF loopI[p] + chunkSize < Len(orderIDs[p]) THEN "update" ELSE "commit"]

UpdateBatch(p) ==
    /\ pc[p] = "update"
    /\ loopI[p] < Len(orderIDs[p])
    /\ ~ctxDone[p]
    /\ LET chunk == Chunk(orderIDs[p], loopI[p])
       IN  /\ ~LockedByOther(p, Range(chunk))
           /\ ExecInTx(p, chunk)
    /\ stmts' = [stmts EXCEPT ![p] = Issued(p)]
    /\ LoopAdvance(p)
    /\ UNCHANGED <<cacheVars, run, sortMemo, catalog, ctxDone, capacity, orders, plan, orderIDs,
                   newStatus, err, result, statusCalls>>

(***************************************************************************)
(* Lines 121-123: the statement fails and the error is returned at once.   *)
(* A statement on a cancelled context never reaches the database.          *)
(***************************************************************************)
ErrIgnored(p) ==
    /\ LoopAdvance(p)
    /\ UNCHANGED <<txWrites, err, result>>

ErrReturned(p) ==
    /\ ExecTxRollback(p, plan[p], FailureOf(p))
    /\ UNCHANGED loopI

UpdateBatchFails(p) ==
    /\ pc[p] = "update"
    /\ loopI[p] < Len(orderIDs[p])
    /\ stmts' = [stmts EXCEPT ![p] = IF ctxDone[p] THEN @ ELSE Issued(p)]
    /\ ErrReturned(p)
    /\ UNCHANGED <<cacheVars, run, sortMemo, catalog, status, ctxDone, capacity, orders, plan, orderIDs,
                   newStatus, statusCalls>>

(***************************************************************************)
(* Lines 97-99: an empty list of identities, return nil.                   *)
(***************************************************************************)
UpdateStatusesChunkedEmpty(p) ==
    /\ pc[p] = "update"
    /\ Len(orderIDs[p]) = 0
    /\ pc' = [pc EXCEPT ![p] = "commit"]
    /\ UNCHANGED <<cacheVars, run, sortMemo, catalog, status, ctxDone, capacity, orders, plan, orderIDs,
                   loopI, stmts, newStatus, txWrites, err, result, statusCalls>>

(***************************************************************************)
(* Store.ExecTx when the work returned nil: the transaction commits, or    *)
(* the commit fails and the transaction is rolled back.                    *)
(***************************************************************************)
Commit(p) ==
    /\ pc[p] = "commit"
    /\ ~ctxDone[p]
    /\ status' = [o \in DOMAIN status |->
                     IF o \in txWrites[p] THEN newStatus[p] ELSE status[o]]
    /\ txWrites' = [txWrites EXCEPT ![p] = {}]
    /\ result' = [result EXCEPT ![p] = Return(plan[p], "nil")]
    /\ pc' = [pc EXCEPT ![p] = "done"]
    /\ UNCHANGED <<cacheVars, run, sortMemo, catalog, ctxDone, capacity, orders, plan, orderIDs, loopI,
                   stmts, newStatus, err, statusCalls>>

CommitFails(p) ==
    /\ pc[p] = "commit"
    /\ ExecTxRollback(p, plan[p], CommitFailureOf(p))
    /\ UNCHANGED <<cacheVars, run, sortMemo, catalog, status, ctxDone, capacity, orders, plan, orderIDs,
                   loopI, stmts, newStatus, statusCalls>>

(***************************************************************************)
(* UpdateOrderStatus: UpdateStatuses on the store itself, one order, in    *)
(* its own statement; it waits for a transaction that holds the row.       *)
(***************************************************************************)
Touched == {o \in Ids(catalog) : o <= MaxTouched}

UpdateOrderStatus(orderID, s) ==
    /\ statusCalls < MaxStatusCalls
    /\ \A q \in Procs : orderID \notin txWrites[q]
    /\ status' = [status EXCEPT ![orderID] = s]
    /\ statusCalls' = statusCalls + 1
    /\ UNCHANGED <<cacheVars, run, sortMemo, catalog, pc, ctxDone, capacity, orders, plan, orderIDs,
                   loopI, stmts, newStatus, txWrites, err, result>>

Next ==
    \/ \E p \in Robots(catalog) : \E c \in Caps(catalog) : GenerateDeliveryPlan(p, c)
    \/ \E p \in Procs : Cancel(p)
    \/ \E p \in Procs : GetShippingOrders(p)
    \/ \E p \in Procs : GetShippingOrdersFails(p)
    \/ \E p \in Procs : SelectOk(p)
    \/ \E p \in Procs : SelectCancelled(p)
    \/ \E p \in Procs : UpdateBatch(p)
    \/ \E p \in Procs : UpdateBatchFails(p)
    \/ \E p \in Procs : Commit(p)
    \/ \E p \in Procs : CommitFails(p)
    \/ \E o \in Touched : \E s \in Status : UpdateOrderStatus(o, s)

Spec == Init /\ [][Next]_vars

(***************************************************************************)
(* The allocator alone: process 1 has read the orders of the input and is  *)
(* about to call selectOrdersForDelivery with the capacity of the input.   *)
(* The inputs are every list of up to MaxOrders orders with weights        *)
(* 0..MaxWeight and values 0..2 under every capacity -1..MaxCap            *)
(* (all in the exact branch), the example of the specification, and the    *)
(* same lists with weights and capacity in units of GreedyUnit wherever    *)
(* that puts the call in the greedy branch (a capacity beyond MaxCap is    *)
(* only given where the exact branch, with its table of capacity + 1       *)
(* cells, does not run).                                                   *)
(***************************************************************************)
Values == {0, 1, 2}

ListOf(n, f) == [k \in 1..n |-> Order(k, f[k][1], f[k][2])]

Scaled(os) == [k \in 1..Len(os) |-> Order(os[k].id, os[k].weight * GreedyUnit, os[k].value)]

SelectInputOf(ps, os, c) ==
    /\ catalog = os
    /\ orders = [p \in Procs |-> IF p \in ps THEN os ELSE <<>>]
    /\ capacity = [p \in Procs |-> IF p \in ps THEN c ELSE 0]
    /\ status = [o \in Ids(os) |-> "shipping"]
    /\ pc = [p \in Procs |-> IF p \in ps THEN "select" ELSE "idle"]
    /\ ctxDone = [p \in Procs |-> FALSE]
    /\ plan = [p \in Procs |-> NoPlan]
    /\ orderIDs = [p \in Procs |-> <<>>]
    /\ loopI = [p \in Procs |-> 0]
    /\ stmts = [p \in Procs |-> <<>>]
    /\ newStatus = [p \in Procs |-> "delivering"]
    /\ txWrites = [p \in Procs |-> {}]
    /\ err = [p \in Procs |-> "nil"]
    /\ result = [p \in Procs |-> Pending]
    /\ statusCalls = 0
    /\ InitRest

InitSelectOf(ps) ==
    \/ \E n \in 0..MaxOrders :
         \E f \in [1..n -> (0..MaxWeight) \X Values] :
           \/ \E c \in -1..MaxCap : SelectInputOf(ps, ListOf(n, f), c)
           \/ \E c \in 1..MaxCap :
                /\ UseGreedy(Scaled(ListOf(n, f)), c * GreedyUnit)
                /\ SelectInputOf(ps, Scaled(ListOf(n, f)), c * GreedyUnit)
    \/ SelectInputOf(ps, ExampleCatalog, 4)

InitSelect == InitSelectOf({1})

NextSelect ==
    \/ \E p \in Procs : SelectOk(p)
    \/ \E p \in Procs : SelectCancelled(p)

SpecSelect == InitSelect /\ [][NextSelect]_vars

(***************************************************************************)
(* The allocator run twice in one process on the same input: processes 1   *)
(* and 2 have both read the same list of orders and call                   *)
(* selectOrdersForDelivery with the same capacity.  (The robot identity is *)
(* only copied into the plan; the model gives each run its own so that the *)
(* two plans can be told apart.)                                           *)
(***************************************************************************)
InitTwice == InitSelectOf(Procs)

SpecTwice == InitTwice /\ [][NextSelect]_vars

(***************************************************************************)
(* The allocator loop turn by loop turn.  Process 1 has read the orders    *)
(* and calls selectOrdersForDelivery; run holds the locals of the call.    *)
(* BeginRun is lines 122-160 and 184-193: the early return, the split,     *)
(* the branch test and, in the greedy branch, the sort.                    *)
(***************************************************************************)
BeginRun(p) ==
    /\ pc[p] = "select"
    /\ run.branch = "none"
    /\ IF EarlyReturn(orders[p], capacity[p])
       THEN /\ Planned(p, DeliveryPlan(p, 0, 0, <<>>))
            /\ run' = [run EXCEPT !.branch = "empty"]
            /\ UNCHANGED sortMemo
       ELSE IF UseGreedy(orders[p], capacity[p])
            THEN /\ \E items \in SortChoices(p) :
                      /\ Sorted(p, items)
                      /\ run' = [run EXCEPT !.branch = "greedy", !.items = items,
                                            !.i = 1, !.capLeft = capacity[p]]
                 /\ UNCHANGED <<plan, orderIDs, pc>>
            ELSE /\ run' = [run EXCEPT !.branch = "exact", !.i = 1]
                 /\ UNCHANGED <<plan, orderIDs, pc, sortMemo>>
    /\ UNCHANGED <<cacheVars, catalog, status, ctxDone, capacity, orders,
                   loopI, stmts, newStatus, txWrites, err, result, statusCalls>>

(***************************************************************************)
(* A checkpoint found the context cancelled (lines 164 and 205): the zero  *)
(* plan and ctx.Err() are returned, and the transaction is rolled back.    *)
(***************************************************************************)
Aborted(p) ==
    /\ run' = [run EXCEPT !.found = TRUE, !.checks = @ + 1,
                          !.steps = IF run.branch = "exact" THEN @ + 1 ELSE @]
    /\ plan' = [plan EXCEPT ![p] = NoPlan]
    /\ ExecTxRollback(p, NoPlan, "canceled")
    /\ UNCHANGED <<cacheVars, sortMemo, catalog, status, ctxDone, capacity,
                   orders, orderIDs, loopI, stmts, newStatus, statusCalls>>

(***************************************************************************)
(* One turn of the greedy loop (lines 161-173): the context is read, then  *)
(* the item is taken if it fits.                                           *)
(***************************************************************************)
GreedyTurn(p) ==
    /\ pc[p] = "select"
    /\ run.branch = "greedy"
    /\ run.i <= Len(run.items)
    /\ IF ctxDone[p]
       THEN Aborted(p)
       ELSE /\ LET o == run.items[run.i]
               IN  run' = IF GreedyFits(o, run.capLeft)
                          THEN [run EXCEPT !.checks = @ + 1, !.i = @ + 1,
                                           !.bestSet = Append(@, o),
                                           !.capLeft = @ - o.weight,
                                           !.totalValue = @ + o.value]
                          ELSE [run EXCEPT !.checks = @ + 1, !.i = @ + 1]
            /\ UNCHANGED <<cacheVars, sortMemo, planVars>>

(* Lines 174-180: the zero-weight orders are prepended, the weight summed. *)
GreedyDone(p) ==
    /\ pc[p] = "select"
    /\ run.branch = "greedy"
    /\ run.i > Len(run.items)
    /\ LET bestSet == zeroWeightItems(orders[p]) \o run.bestSet
       IN  Planned(p, DeliveryPlan(p, SumWeight(bestSet), run.totalValue, bestSet))
    /\ UNCHANGED <<cacheVars, run, sortMemo, catalog, status, ctxDone, capacity,
                   orders, loopI, stmts, newStatus, txWrites, err, result,
                   statusCalls>>

(***************************************************************************)
(* The outer loop of the exact solver reaches item i (lines 194-200): the  *)
(* item is skipped when it is heavier than the capacity, else the inner    *)
(* loop starts at c = cap.  run.c = -1 stands for "between two items".     *)
(***************************************************************************)
ItemStart(p) ==
    /\ pc[p] = "select"
    /\ run.branch = "exact"
    /\ run.c = -1
    /\ run.i <= Len(filtered(orders[p]))
    /\ run' = IF Skipped(filtered(orders[p])[run.i], capacity[p])
              THEN [run EXCEPT !.i = @ + 1]
              ELSE [run EXCEPT !.c = capacity[p]]
    /\ UNCHANGED <<cacheVars, sortMemo, planVars>>

(***************************************************************************)
(* One turn of the inner loop (lines 200-213): the step is counted, at a   *)
(* checkpoint the context is read, then the cell is updated.  since counts *)
(* the turns completed while the context was already cancelled.            *)
(***************************************************************************)
IsCheckpointNever(steps) == FALSE

IsCheckpoint(steps) == checkEvery > 0 /\ steps % checkEvery = 0

Cell(dp, c) == IF c \in DOMAIN dp THEN dp[c] ELSE 0

CellImproves(dp, c, w, v) == Cell(dp, c - w) + v > Cell(dp, c)

InnerTurn(p) ==
    /\ pc[p] = "select"
    /\ run.branch = "exact"
    /\ run.c >= 0
    /\ LET o == filtered(orders[p])[run.i]
           w == o.weight
           v == o.value
           c == run.c
           checked == IsCheckpoint(run.steps + 1)
           took == CellImproves(run.dp, c, w, v)
       IN  IF checked /\ ctxDone[p]
           THEN Aborted(p)
           ELSE /\ run' = [run EXCEPT
                             !.steps = @ + 1,
                             !.checks = IF checked THEN @ + 1 ELSE @,
                             !.since = IF ctxDone[p] THEN @ + 1 ELSE @,
                             !.dp = IF took
                                    THEN (c :> (Cell(run.dp, c - w) + v)) @@ @
                                    ELSE @,
                             !.keep = IF took THEN @ \cup {<<run.i, c>>} ELSE @,
                             !.c = IF c - 1 >= w THEN c - 1 ELSE -1,
                             !.i = IF c - 1 >= w THEN @ ELSE @ + 1]
                /\ UNCHANGED <<cacheVars, sortMemo, planVars>>

(***************************************************************************)
(* Lines 216-257 on the cells written: the first capacity index holding    *)
(* the largest value (index 0 and value 0 when no cell was written), the   *)
(* reconstruction from the last item to the first, the zero-weight orders  *)
(* in front, the totals and the reversal.                                  *)
(***************************************************************************)
BestOf(dp) ==
    LET bestVal == IF \E c \in DOMAIN dp : dp[c] > 0
                   THEN CHOOSE x \in {dp[c] : c \in DOMAIN dp} :
                            \A c \in DOMAIN dp : dp[c] <= x
                   ELSE 0
    IN  [bestVal |-> bestVal,
         bestC |-> IF bestVal = 0 THEN 0
                   ELSE CHOOSE c \in DOMAIN dp :
                            /\ dp[c] = bestVal
                            /\ \A d \in DOMAIN dp : dp[d] = bestVal => c <= d]

RECURSIVE ReconstructKept(_, _, _, _, _)
ReconstructKept(fs, keep, i, c, bestSet) ==
    IF i < 1 \/ c <= 0
    THEN bestSet
    ELSE IF <<i, c>> \in keep
         THEN ReconstructKept(fs, keep, i - 1, c - fs[i].weight,
                              Append(bestSet, fs[i]))
         ELSE ReconstructKept(fs, keep, i - 1, c, bestSet)

ExactDone(p) ==
    /\ pc[p] = "select"
    /\ run.branch = "exact"
    /\ run.c = -1
    /\ run.i > Len(filtered(orders[p]))
    /\ LET fs == filtered(orders[p])
           b == BestOf(run.dp)
           picked == ReconstructKept(fs, run.keep, Len(fs), b.bestC, <<>>)
           bestSet == zeroWeightItems(orders[p]) \o picked
       IN  Planned(p, DeliveryPlan(p, SumWeight(bestSet), SumValue(bestSet),
                                   Reverse(bestSet)))
    /\ UNCHANGED <<cacheVars, run, sortMemo, catalog, status, ctxDone, capacity,
                   orders, loopI, stmts, newStatus, txWrites, err, result,
                   statusCalls>>

(***************************************************************************)
(* The context is cancelled during the run.  In the inner loop the moment  *)
(* is within CancelSlack turns of a multiple of checkEvery: just after a   *)
(* checkpoint (the longest wait for the next one) or just before one.      *)
(***************************************************************************)
CancelSlack == 1

CancelNear(p) ==
    /\ pc[p] = "select"
    /\ \/ run.steps % checkEvery <= CancelSlack
       \/ run.steps % checkEvery >= checkEvery - CancelSlack
    /\ Cancel(p)

(***************************************************************************)
(* The inputs of the runs: the example of the specification under each     *)
(* capacity 0..4 and no orders at all (exact branch and early return);     *)
(* heavy orders in the greedy branch, without and with equal ratios; two   *)
(* positive-weight orders at a capacity where orders x capacity is the     *)
(* cell budget and one above it; and two light orders whose inner loops    *)
(* together run past one checkpoint, or past two.                          *)
(***************************************************************************)
LongExtra == 1

TiedCatalog == <<Order(1, 2 * GreedyUnit, 2), Order(2, GreedyUnit, 1), Order(3, 0, 1)>>

BudgetCatalog ==
    <<Order(1, maxCells \div 2, 3), Order(2, maxCells \div 2 + 1, 4), Order(3, 0, 1)>>

LongCatalog == <<Order(1, 1, 0), Order(2, 1, 0), Order(3, 0, 1)>>

StepInputs ==
    {<<ExampleCatalog, c>> : c \in 0..4}
    \cup {<< <<>>, 1 >>, <<HeavyCatalog, maxCells + 1>>, <<TiedCatalog, 2 * GreedyUnit>>}
    \cup {<<BudgetCatalog, maxCells \div 2 + d>> : d \in 0..1}
    \cup {<<LongCatalog, c>> : c \in {checkEvery \div 2 + 1, checkEvery + LongExtra}}

InitSteps == \E inp \in StepInputs : SelectInputOf({1}, inp[1], inp[2])

NextSteps ==
    \/ \E p \in Procs : BeginRun(p)
    \/ \E p \in Procs : GreedyTurn(p)
    \/ \E p \in Procs : GreedyDone(p)
    \/ \E p \in Procs : ItemStart(p)
    \/ \E p \in Procs : InnerTurn(p)
    \/ \E p \in Procs : ExactDone(p)
    \/ \E p \in Procs : CancelNear(p)

SpecSteps == InitSteps /\ [][NextSteps]_vars

(***************************************************************************)
(* The applier alone: process 1 is inside a transaction and calls          *)
(* UpdateStatusesChunked on the identities 1..n of n orders awaiting       *)
(* shipment, for n up to SmallLen and n around each multiple of chunkSize  *)
(* up to MaxChunks chunks.                                                 *)
(***************************************************************************)
SmallLen == 2

MaxChunks == 2

ChunkLens ==
    (0..SmallLen) \cup {k * chunkSize + d : k \in 1..MaxChunks, d \in {-1, 0, 1}}

InitChunk ==
    /\ \E n \in ChunkLens :
         /\ catalog = [k \in 1..n |-> Order(k, 0, 1)]
         /\ orderIDs = [p \in Procs |-> IF p = 1 THEN [k \in 1..n |-> k] ELSE <<>>]
    /\ \E s \in {"delivering", "completed"} : newStatus = [p \in Procs |-> s]
    /\ status = [o \in Ids(catalog) |-> "shipping"]
    /\ pc = [p \in Procs |-> IF p = 1 THEN "update" ELSE "idle"]
    /\ ctxDone = [p \in Procs |-> FALSE]
    /\ capacity = [p \in Procs |-> 0]
    /\ orders = [p \in Procs |-> <<>>]
    /\ plan = [p \in Procs |-> NoPlan]
    /\ loopI = [p \in Procs |-> 0]
    /\ stmts = [p \in Procs |-> <<>>]
    /\ txWrites = [p \in Procs |-> {}]
    /\ err = [p \in Procs |-> "nil"]
    /\ result = [p \in Procs |-> Pending]
    /\ statusCalls = 0
    /\ InitRest

NextChunk ==
    \/ \E p \in Procs : UpdateStatusesChunkedEmpty(p)
    \/ \E p \in Procs : UpdateBatch(p)
    \/ \E p \in Procs : UpdateBatchFails(p)
    \/ \E p \in Procs : Commit(p)
    \/ \E p \in Procs : CommitFails(p)
    \/ \E p \in Procs : Cancel(p)

SpecChunk == InitChunk /\ [][NextChunk]_vars

(***************************************************************************)
(* The session cache of the middleware.  cache is the map of the           *)
(* SessionCache, from session id to sessionCacheEntry; now is the clock    *)
(* that time.Now reads, in ticks; every section of code that holds the     *)
(* mutex is one step.  Get is three steps: the read under the read lock    *)
(* (lines 35-41), the expiry test outside any lock (line 44), and the      *)
(* Delete it calls for an expired entry (lines 45-46), which takes the     *)
(* write lock anew.                                                        *)
(***************************************************************************)
MaxNow == 3

TTLTicks == 1

Sessions == {"s1"}

Users == {1, 2}

sessionCacheEntry(userID, expiresAt) == [userID |-> userID, expiresAt |-> expiresAt]

Without(sessionID) == [k \in DOMAIN cache \ {sessionID} |-> cache[k]]

After(t, u) == t > u

GetRead(g, sessionID) ==
    /\ gets[g].pc = "idle"
    /\ gets' = [gets EXCEPT ![g] =
                  IF sessionID \in DOMAIN cache
                  THEN [GetIdle EXCEPT !.pc = "check", !.sessionID = sessionID,
                                       !.entry = cache[sessionID]]
                  ELSE [GetIdle EXCEPT !.pc = "done", !.sessionID = sessionID]]
    /\ UNCHANGED <<cache, now, run, sortMemo, planVars>>

GetCheck(g) ==
    /\ gets[g].pc = "check"
    /\ gets' = [gets EXCEPT ![g] =
                  IF After(now, gets[g].entry.expiresAt)
                  THEN [@ EXCEPT !.pc = "delete", !.checkedAt = now]
                  ELSE [@ EXCEPT !.pc = "done", !.checkedAt = now,
                                 !.userID = gets[g].entry.userID, !.ok = TRUE]]
    /\ UNCHANGED <<cache, now, run, sortMemo, planVars>>

GetDelete(g) ==
    /\ gets[g].pc = "delete"
    /\ cache' = Without(gets[g].sessionID)
    /\ gets' = [gets EXCEPT ![g] = [@ EXCEPT !.pc = "done"]]
    /\ UNCHANGED <<now, run, sortMemo, planVars>>

(* Set, lines 53-60. *)
Set(sessionID, userID, ttl) ==
    /\ cache' = (sessionID :> sessionCacheEntry(userID, now + ttl)) @@ cache
    /\ UNCHANGED <<now, gets, run, sortMemo, planVars>>

(* Delete, lines 63-67, called from outside Get. *)
Delete(sessionID) ==
    /\ sessionID \in DOMAIN cache
    /\ cache' = Without(sessionID)
    /\ UNCHANGED <<now, gets, run, sortMemo, planVars>>

(* Time passes. *)
Tick ==
    /\ now < MaxNow
    /\ now' = now + 1
    /\ UNCHANGED <<cache, gets, run, sortMemo, planVars>>

InitSessions ==
    /\ catalog = <<>>
    /\ status = <<>>
    /\ InitCalls

NextSessions ==
    \/ \E g \in Getters : \E k \in Sessions : GetRead(g, k)
    \/ \E g \in Getters : GetCheck(g)
    \/ \E g \in Getters : GetDelete(g)
    \/ \E k \in Sessions : \E u \in Users : Set(k, u, TTLTicks)
    \/ \E k \in Sessions : Delete(k)
    \/ Tick

SpecSessions == InitSessions /\ [][NextSessions]_vars

(***************************************************************************)
(* Vocabulary of the properties.                                           *)
(***************************************************************************)
Returns(p) == result[p] = Pending /\ result'[p] # Pending

Succeeded(p) == result[p].err = "nil"

Returned(p) == result[p].plan[1]

Failed(p) == result[p] # Pending /\ result[p].err # "nil"

Selected(p) == pc[p] \in {"update", "commit"}

Listed(p) == Range(orderIDs[p])

NumBatches(n) == (n + 999) \div 1000

(* A committed status changes only in the step in which a planning call   *)
(* commits and returns its plan, or in an UpdateOrderStatus call.         *)
OnlyCommitsWrite ==
    status' # status =>
        \/ statusCalls' # statusCalls
        \/ \E p \in Procs : Returns(p) /\ result'[p].err = "nil"

(* The best total value of a subset of the orders within the capacity.    *)
Pick(os, S) == LET InS(o) == o.id \in S IN SelectSeq(os, InS)

Feasible(os, cap) == {S \in SUBSET Ids(os) : SumWeight(Pick(os, S)) <= cap}

OptValue(os, cap) ==
    LET vals == {SumValue(Pick(os, S)) : S \in Feasible(os, cap)}
    IN  CHOOSE v \in vals : \A u \in vals : u <= v

IsSubList(pl, os) ==
    /\ \A k \in 1..Len(pl) : \E j \in 1..Len(os) : pl[k] = os[j]
    /\ \A k, j \in 1..Len(pl) : k # j => pl[k].id # pl[j].id

(***************************************************************************)
(* C1: a GenerateDeliveryPlan call that ends in failure returns no plan,   *)
(* leaves nothing of its transaction behind and changes no committed       *)
(* status, neither in the failing step nor in any step before it (the      *)
(* batches it had already applied included).                               *)
(***************************************************************************)
C1_FailureChangesNothing ==
    [][ /\ OnlyCommitsWrite
        /\ \A p \in Procs :
             (Returns(p) /\ result'[p].err # "nil") =>
                 /\ result'[p].plan = <<>>
                 /\ txWrites'[p] = {}
                 /\ status' = status ]_vars

(* A call failed on its second batch after the first was applied, and     *)
(* every order it listed is still awaiting shipment.                      *)
C1_Witness ==
    \E p \in Procs :
        /\ Failed(p)
        /\ Len(stmts[p]) = 2
        /\ loopI[p] = chunkSize
        /\ \A o \in Listed(p) : status[o] = "shipping"

(***************************************************************************)
(* C2: in the step in which GenerateDeliveryPlan commits and returns a     *)
(* plan, exactly the orders of the plan are written: each becomes          *)
(* 'delivering', every other order keeps its status; no other step of the  *)
(* call changes a committed status.                                        *)
(***************************************************************************)
C2_PlanIsExactlyWhatChanges ==
    [][ /\ OnlyCommitsWrite
        /\ \A p \in Procs :
             (Returns(p) /\ result'[p].err = "nil") =>
                 \A o \in DOMAIN status :
                     IF o \in Ids(result'[p].plan[1].orders)
                     THEN status'[o] = "delivering"
                     ELSE status'[o] = status[o] ]_vars

(* A call returned a plan that leaves out an order it had read: the       *)
(* planned orders are in transit, the other is still awaiting shipment.   *)
C2_Witness ==
    \E p \in Procs :
        /\ pc[p] = "done" /\ Succeeded(p)
        /\ statusCalls = 0
        /\ Ids(Returned(p).orders) # {}
        /\ \A o \in Ids(Returned(p).orders) : status[o] = "delivering"
        /\ \E o \in Ids(orders[p]) \ Ids(Returned(p).orders) :
               status[o] = "shipping"

(***************************************************************************)
(* C3: two planning calls that both commit never hold the same order in    *)
(* their plans.  (With no UpdateOrderStatus call in the run an order is    *)
(* never put back to 'shipping', so two plans can share an order only if   *)
(* both calls read it before either committed.)                            *)
(***************************************************************************)
C3_NoOrderInTwoPlans ==
    \A p, q \in Procs :
        (p # q /\ statusCalls = 0 /\ Succeeded(p) /\ Succeeded(q)) =>
            Ids(Returned(p).orders) \cap Ids(Returned(q).orders) = {}

(***************************************************************************)
(* C4: the orders selectOrdersForDelivery selects weigh together at most   *)
(* the capacity when the capacity is positive, and nothing is selected     *)
(* when the capacity is zero or negative; in the exact and in the greedy   *)
(* branch.                                                                 *)
(***************************************************************************)
C4_WeightWithinCapacity ==
    \A p \in Procs :
        Selected(p) =>
            /\ capacity[p] > 0 => SumWeight(plan[p].orders) <= capacity[p]
            /\ capacity[p] > 0 => plan[p].totalWeight <= capacity[p]
            /\ capacity[p] <= 0 => plan[p].orders = <<>>

(* The greedy branch left out an order that no longer fitted.              *)
C4_Witness ==
    \E p \in Procs :
        /\ Selected(p)
        /\ UseGreedy(orders[p], capacity[p])
        /\ Len(plan[p].orders) >= 2
        /\ Len(plan[p].orders) < Len(orders[p])
        /\ SumWeight(orders[p]) > capacity[p]

(***************************************************************************)
(* C5 as stated: whenever (positive-weight orders) x capacity is within    *)
(* the cell budget, the selection's total value is the best total value    *)
(* of any subset of the input within the capacity.                         *)
(***************************************************************************)
C5_OptimalForEveryCapacity ==
    \A p \in Procs :
        (Selected(p) /\ ~UseGreedy(orders[p], capacity[p])
                     /\ Feasible(orders[p], capacity[p]) # {}) =>
            SumValue(plan[p].orders) = OptValue(orders[p], capacity[p])

(***************************************************************************)
(* C5 amended: for a positive capacity within the cell budget the          *)
(* selection is a sub-list of the input, within the capacity, whose total  *)
(* value is the best total value of any subset within the capacity; on     *)
(* the example of the specification it is {2, 3}, value 20, weight 3.      *)
(***************************************************************************)
C5_OptimalForPositiveCapacity ==
    \A p \in Procs :
        (Selected(p) /\ capacity[p] > 0 /\ ~UseGreedy(orders[p], capacity[p])) =>
            /\ IsSubList(plan[p].orders, orders[p])
            /\ SumWeight(plan[p].orders) <= capacity[p]
            /\ SumValue(plan[p].orders) = OptValue(orders[p], capacity[p])
            /\ plan[p].totalValue = OptValue(orders[p], capacity[p])
            /\ (orders[p] = ExampleCatalog /\ capacity[p] = 4) =>
                   /\ Ids(plan[p].orders) = {2, 3}
                   /\ plan[p].totalValue = 20
                   /\ plan[p].totalWeight = 3

(* The exact branch ran on the example.                                    *)
C5_Witness ==
    \E p \in Procs :
        /\ Selected(p)
        /\ orders[p] = ExampleCatalog /\ capacity[p] = 4
        /\ plan[p].totalValue = 20

(***************************************************************************)
(* C6 as stated: every order of weight zero or less is in the returned     *)
(* plan, whatever the capacity.                                            *)
(***************************************************************************)
C6_ZeroWeightAlwaysIncluded ==
    \A p \in Procs :
        Selected(p) =>
            \A k \in 1..Len(orders[p]) :
                orders[p][k].weight <= 0 => orders[p][k].id \in Ids(plan[p].orders)

(***************************************************************************)
(* C6 amended: for every positive capacity, every order of weight zero or  *)
(* less is in the returned plan, in the exact and in the greedy branch.    *)
(***************************************************************************)
C6_ZeroWeightIncludedIfCapacityPositive ==
    \A p \in Procs :
        (Selected(p) /\ capacity[p] > 0) =>
            \A k \in 1..Len(orders[p]) :
                orders[p][k].weight <= 0 => orders[p][k].id \in Ids(plan[p].orders)

(* The greedy branch returned a zero-weight order beside an order it       *)
(* picked and one it left out.                                             *)
C6_Witness ==
    \E p \in Procs :
        /\ Selected(p)
        /\ UseGreedy(orders[p], capacity[p])
        /\ Len(zeroWeightItems(orders[p])) = 1
        /\ Len(plan[p].orders) = 2
        /\ Len(orders[p]) = 3

(***************************************************************************)
(* C7: a call whose context is cancelled before its transaction has        *)
(* committed ends in the cancellation failure with no plan, its            *)
(* transaction rolled back and no committed status changed by any of its   *)
(* steps.                                                                  *)
(***************************************************************************)
C7_CancelledCallChangesNothing ==
    [][ /\ OnlyCommitsWrite
        /\ \A p \in Procs :
             (Returns(p) /\ ctxDone'[p]) =>
                 /\ result'[p].err = "canceled"
                 /\ result'[p].plan = <<>>
                 /\ txWrites'[p] = {}
                 /\ status' = status ]_vars

(* The context was cancelled between the first and the second batch.       *)
C7_Witness ==
    \E p \in Procs :
        /\ Failed(p) /\ ctxDone[p]
        /\ result[p].err = "canceled"
        /\ Len(orderIDs[p]) > chunkSize
        /\ Len(stmts[p]) = 1
        /\ \A o \in Listed(p) : status[o] = "shipping"

(***************************************************************************)
(* C8: when every statement of UpdateStatusesChunked succeeds on a list of *)
(* n identities, it has issued ceil(n/1000) statements (none for n = 0),   *)
(* the first slice starting at the head of the list, each next slice where *)
(* the one before ended, the last ending at the end of the list, each of   *)
(* 1 to 1000 identities; all listed rows are written, and have the target  *)
(* status once committed.  For n = 2000 the slices are 1..1000 and         *)
(* 1001..2000.                                                             *)
(***************************************************************************)
C8_ChunksPartitionTheList ==
    \A p \in Procs :
        (pc[p] \in {"commit", "done"} /\ loopI[p] >= Len(orderIDs[p])) =>
            LET n == Len(orderIDs[p])
                st == stmts[p]
            IN  /\ Len(st) = NumBatches(n)
                /\ n > 0 => st[1][1] = 1 /\ st[Len(st)][2] = n
                /\ \A k \in 1..Len(st) :
                       /\ st[k][2] - st[k][1] + 1 \in 1..1000
                       /\ k > 1 => st[k][1] = st[k - 1][2] + 1
                /\ pc[p] = "commit" => txWrites[p] = Listed(p)
                /\ (pc[p] = "done" /\ Succeeded(p)) =>
                       \A o \in Listed(p) : status[o] = newStatus[p]
                /\ n = 2000 => st = << <<1, 1000>>, <<1001, 2000>> >>

(* 2000 identities were updated in two statements and committed.           *)
C8_Witness ==
    \E p \in Procs :
        /\ pc[p] = "done" /\ Succeeded(p)
        /\ Len(orderIDs[p]) = 2000
        /\ Len(stmts[p]) = 2
        /\ \A o \in Listed(p) : status[o] = newStatus[p]

(***************************************************************************)
(* C9: while the loop of UpdateStatusesChunked runs no statement has       *)
(* failed; a statement that fails is the last one issued; and when the     *)
(* enclosing transaction has ended, either it succeeded and every listed   *)
(* order has the target status, or it failed and no listed order was       *)
(* changed.                                                                *)
(***************************************************************************)
C9_FailedBatchAbortsAll ==
    \A p \in Procs :
        /\ pc[p] = "update" =>
               /\ err[p] = "nil"
               /\ Len(stmts[p]) * chunkSize = loopI[p]
        /\ (pc[p] = "done" /\ loopI[p] < Len(orderIDs[p])) =>
               /\ Failed(p)
               /\ Len(stmts[p]) <= loopI[p] \div chunkSize + 1
        /\ pc[p] = "done" =>
               \/ Succeeded(p) /\ \A o \in Listed(p) : status[o] = newStatus[p]
               \/ Failed(p) /\ \A o \in Listed(p) : status[o] = "shipping"

(* The second of three batches failed in the store; nothing was changed.   *)
C9_Witness ==
    \E p \in Procs :
        /\ pc[p] = "done" /\ result[p].err = "storage"
        /\ Len(orderIDs[p]) > 2 * chunkSize
        /\ loopI[p] = chunkSize
        /\ Len(stmts[p]) = 2
        /\ \A o \in Listed(p) : status[o] = "shipping"

(***************************************************************************)
(* C10: the selection of the greedy branch weighs at most the capacity,    *)
(* and its total value (as reported, and as the sum over the selection)    *)
(* is at least 0 and at most the best total value of any subset of the     *)
(* orders within the capacity, which is the value the exact solver         *)
(* reaches (C5).                                                           *)
(***************************************************************************)
C10_GreedyWithinExact ==
    \A p \in Procs :
        (Selected(p) /\ UseGreedy(orders[p], capacity[p])) =>
            /\ SumWeight(plan[p].orders) <= capacity[p]
            /\ plan[p].totalWeight <= capacity[p]
            /\ plan[p].totalValue >= 0
            /\ plan[p].totalValue <= OptValue(orders[p], capacity[p])
            /\ SumValue(plan[p].orders) >= 0
            /\ SumValue(plan[p].orders) <= OptValue(orders[p], capacity[p])

(* The greedy branch returned a selection worth less than the best one.    *)
C10_Witness ==
    \E p \in Procs :
        /\ Selected(p)
        /\ UseGreedy(orders[p], capacity[p])
        /\ plan[p].totalValue > 0
        /\ SumValue(plan[p].orders) < OptValue(orders[p], capacity[p])

(***************************************************************************)
(* C11: in every plan selectOrdersForDelivery returns, from the exact, the *)
(* greedy and the empty-plan branch, the aggregate weight is the sum of    *)
(* the weights of the listed orders and the aggregate value the sum of     *)
(* their values, the zero-weight orders included.                          *)
(***************************************************************************)
C11_TotalsAreSums ==
    \A p \in Procs :
        Selected(p) =>
            /\ plan[p].totalWeight = SumWeight(plan[p].orders)
            /\ plan[p].totalValue = SumValue(plan[p].orders)

(***************************************************************************)
(* C12: a GenerateDeliveryPlan call with capacity zero, or one that read   *)
(* no order awaiting shipment, gets the empty plan (weight 0, value 0)     *)
(* from the allocator without failure, goes straight to the commit with no *)
(* update statement issued and no row written, and its return leaves every *)
(* status as it was; when the transaction commits it returns that plan.    *)
(***************************************************************************)
Degenerate(p) == capacity[p] = 0 \/ orders[p] = <<>>

C12_DegenerateCallSucceedsEmpty ==
    [][ \A p \in Procs :
          /\ (pc[p] = "select" /\ Degenerate(p) /\ pc'[p] # "select") =>
                 /\ pc'[p] = "commit"
                 /\ plan'[p] = DeliveryPlan(p, 0, 0, <<>>)
                 /\ stmts'[p] = <<>> /\ txWrites'[p] = {}
          /\ (pc[p] = "commit" /\ Degenerate(p) /\ Returns(p)) =>
                 /\ status' = status
                 /\ stmts'[p] = <<>>
                 /\ (~ctxDone[p] /\ result'[p].err # "storage") =>
                        result'[p] = Return(DeliveryPlan(p, 0, 0, <<>>), "nil") ]_vars

(* A call with a positive capacity found no order awaiting shipment and    *)
(* returned the empty plan.                                                *)
C12_Witness ==
    \E p \in Procs :
        /\ pc[p] = "done" /\ Succeeded(p)
        /\ capacity[p] > 0 /\ orders[p] = <<>>
        /\ Returned(p) = DeliveryPlan(p, 0, 0, <<>>)
        /\ stmts[p] = <<>>

(***************************************************************************)
(* C14: the status changes a planning call commits take an order from      *)
(* 'shipping' to 'delivering' only: an order that is 'delivering' or       *)
(* 'completed' when the call writes is left alone, also when it was        *)
(* changed after the call read it.                                         *)
(***************************************************************************)
C14_OnlyShippingBecomesDelivering ==
    [][ \A p \in Procs :
          (Returns(p) /\ result'[p].err = "nil") =>
              \A o \in DOMAIN status :
                  status'[o] # status[o] =>
                      status[o] = "shipping" /\ status'[o] = "delivering" ]_vars

(***************************************************************************)
(* C17: every order listed in a plan selectOrdersForDelivery returns is    *)
(* one of the input orders, and none is listed twice; in the exact and in  *)
(* the greedy branch.                                                      *)
(***************************************************************************)
C17_EachOrderAtMostOnce ==
    \A p \in Procs :
        Selected(p) => IsSubList(plan[p].orders, orders[p])

(* The exact branch selected two orders, one of them light enough to fit   *)
(* twice.                                                                  *)
C17_Witness ==
    \E p \in Procs :
        /\ Selected(p)
        /\ ~UseGreedy(orders[p], capacity[p])
        /\ Len(SelectSeq(plan[p].orders, IsPositiveWeight)) >= 2
        /\ \E k \in 1..Len(plan[p].orders) :
               /\ plan[p].orders[k].weight > 0
               /\ 2 * plan[p].orders[k].weight <= capacity[p]

(***************************************************************************)
(* C18: the list of orders in a plan of the exact branch is in input       *)
(* order: of any two listed orders, zero-weight ones included, the one     *)
(* that comes first in the input comes first in the plan.                  *)
(***************************************************************************)
IndexOf(os, o) == CHOOSE j \in 1..Len(os) : os[j] = o

C18_ExactPlanInInputOrder ==
    \A p \in Procs :
        (Selected(p) /\ ~EarlyReturn(orders[p], capacity[p])
                     /\ ~UseGreedy(orders[p], capacity[p])) =>
            \A a, b \in 1..Len(plan[p].orders) :
                a < b => IndexOf(orders[p], plan[p].orders[a])
                             < IndexOf(orders[p], plan[p].orders[b])

(***************************************************************************)
(* C19: the positive-weight orders the exact solver selects reach the best *)
(* total value within the capacity, and among the subsets that do they     *)
(* weigh least: together exactly the smallest capacity index at which the  *)
(* value table holds its maximum.  No order of value 0 and positive weight *)
(* is selected.                                                            *)
(***************************************************************************)
BestSubsets(os, cap) ==
    {S \in Feasible(os, cap) : SumValue(Pick(os, S)) = OptValue(os, cap)}

MinIndexOfMax(dp, cap) ==
    CHOOSE c \in 0..cap :
        /\ \A d \in 0..cap : dp[d] <= dp[c]
        /\ \A d \in 0..(c - 1) : dp[d] < dp[c]

C19_LightestOfTheBest ==
    \A p \in Procs :
        (Selected(p) /\ ~EarlyReturn(orders[p], capacity[p])
                     /\ ~UseGreedy(orders[p], capacity[p])) =>
            LET fs == filtered(orders[p])
                cap == capacity[p]
                picked == SelectSeq(plan[p].orders, IsPositiveWeight)
                t == ItemLoop(fs, cap, 1, [c \in 0..cap |-> 0], <<>>)
            IN  /\ Ids(picked) \in BestSubsets(fs, cap)
                /\ \A S \in BestSubsets(fs, cap) :
                       SumWeight(picked) <= SumWeight(Pick(fs, S))
                /\ SumWeight(picked) = MinIndexOfMax(t.dp, cap)
                /\ \A k \in 1..Len(picked) : picked[k].value # 0

(* Two subsets of different weight reach the best value, and the lighter   *)
(* one was selected.                                                       *)
C19_Witness ==
    \E p \in Procs :
        /\ Selected(p)
        /\ ~EarlyReturn(orders[p], capacity[p])
        /\ ~UseGreedy(orders[p], capacity[p])
        /\ plan[p].totalValue > 0
        /\ \E S \in BestSubsets(filtered(orders[p]), capacity[p]) :
               SumWeight(Pick(filtered(orders[p]), S))
                   > SumWeight(SelectSeq(plan[p].orders, IsPositiveWeight))

C15_ChecksAtRun ==
    /\ run.branch = "exact" =>
           /\ run.checks = run.steps \div 4096
           /\ run.since < 4096
    /\ run.branch = "greedy" =>
           run.checks = (run.i - 1) + (IF run.found THEN 1 ELSE 0)
    /\ run.found =>
           /\ pc[1] = "done"
           /\ result[1] = [plan |-> <<>>, err |-> "canceled"]
           /\ plan[1] = NoPlan /\ orderIDs[1] = <<>>

C15_CheckpointsAbortTheRun ==
    [][ /\ C15_ChecksAtRun'
        /\ (run'.checks # run.checks /\ ctxDone[1]) => run'.found
        /\ run.found => run' = run ]_vars

(* The context was cancelled just after the first checkpoint of the exact  *)
(* solver, which ran 4095 more turns, into the loop of the next order, and *)
(* aborted at the second checkpoint.                                       *)
C15_Witness ==
    /\ run.branch = "exact" /\ run.found
    /\ run.steps = 2 * checkEvery
    /\ run.since = checkEvery - 1
    /\ run.i = 2
    /\ result[1].err = "canceled"

(***************************************************************************)
(* C16: with n the number of positive-weight orders and C the capacity     *)
(* (and the early return not taken), the greedy branch runs exactly when   *)
(* n * C > 5,000,000 and the exact solver otherwise, also at               *)
(* n * C = 5,000,000; the plan of a completed run is the plan of that      *)
(* branch.                                                                 *)
(***************************************************************************)
C16_GreedyOnlyAboveBudget ==
    run.branch # "none" =>
        LET n == Len(filtered(orders[1]))
            C == capacity[1]
        IN  /\ run.branch = "empty" <=> (Len(orders[1]) = 0 \/ C <= 0)
            /\ run.branch = "greedy" <=> (Len(orders[1]) > 0 /\ C > 0 /\ n * C > 5000000)
            /\ run.branch = "exact" <=> (Len(orders[1]) > 0 /\ C > 0 /\ n * C <= 5000000)
            /\ (Selected(1) /\ run.branch = "greedy") =>
                   plan[1] = GreedyPlan(orders[1], 1, C, run.items)
            /\ (Selected(1) /\ run.branch = "exact" /\ C <= MaxCap + 1) =>
                   plan[1] = ExactPlan(orders[1], 1, C)

(* At n * C = 5,000,000 the exact solver ran and selected the one order    *)
(* that fits.                                                              *)
C16_Witness ==
    /\ Selected(1)
    /\ Len(filtered(orders[1])) * capacity[1] = 5000000
    /\ run.branch = "exact"
    /\ run.steps = 1
    /\ Ids(plan[1].orders) = {1, 3}

(***************************************************************************)
(* C20: under any interleaving of Get, Set and Delete calls, a Get that    *)
(* returns a user identity found the entry unexpired when it tested it,    *)
(* and the removal a Get performs for an expired entry removes that entry  *)
(* only: an entry a Set has stored since the Get read the expired one is   *)
(* not removed.                                                            *)
(***************************************************************************)
C20_GetRemovesOnlyTheExpiredEntry ==
    [][ \A g \in Getters :
          /\ gets'[g].ok =>
                 /\ ~After(gets'[g].checkedAt, gets'[g].entry.expiresAt)
                 /\ gets'[g].userID = gets'[g].entry.userID
          /\ (gets[g].pc = "delete" /\ gets'[g].pc = "done") =>
                 (gets[g].sessionID \in DOMAIN cache =>
                      cache[gets[g].sessionID] = gets[g].entry) ]_vars

====
